---- MODULE Spec2Model ----
(***************************************************************************)
(* Task-Management-Nest: the credential service (register, login,          *)
(* resetPassword over a user store), the JWT access guard in front of the  *)
(* task routes, and the task service behind them.                          *)
(*                                                                         *)
(* Strings of the program are TLA+ strings.  A JavaScript argument that    *)
(* may be null/undefined is a record [type, val].  Every handler is an     *)
(* operator that returns the store it leaves behind, the response (or the  *)
(* exception) the caller observes, and the collaborator calls it made, in  *)
(* order.                                                                  *)
(***************************************************************************)
EXTENDS Integers, Sequences, FiniteSets, TLC

VARIABLES
    users,      \* the user table: sequence of rows, in insertion order
    tasks,      \* the task table: sequence of rows, in insertion order
    nextTaskId, \* number of task ids generated so far
    now,        \* the clock the token issuer and the guard read
    held,       \* tokens that clients kept from login responses
    last,       \* the last request: operation, arguments, response, calls
    pending     \* register calls suspended at an await, one per caller

vars == <<users, tasks, nextTaskId, now, held, last, pending>>

---------------------------------------------------------------------------
(* Bounds of the exploration *)

MaxUsers == 3
MaxTaskIds == 2
MaxTime == 2
MaxHeld == 2
MaxCallers == 2

Emails == {"a@x.com", "b@x.com"}
Usernames == {"a1", "b1"}
Names == {"A"}
Salts == {"s1", "s2"}

---------------------------------------------------------------------------
(* JavaScript values *)

Null == [type |-> "null", val |-> ""]
Str(s) == [type |-> "string", val |-> s]
Bool(b) == [type |-> "boolean", val |-> b]

\* !value for a value that is null/undefined or a string
Falsy(value) == value.type = "null" \/ value.val = ""

Passwords == {Null, Str(""), Str("12345"), Str("123456"), Str("secret1")}

---------------------------------------------------------------------------
(* bcrypt: a salted one-way hash.  The digest is abstracted by an          *)
(* injective tagging of the data, so that two hashes agree only when salt  *)
(* and data agree (no collisions).                                         *)

HashPrefix == "$2b$10$"
PrefixLen == Len(HashPrefix)
SaltLen == Len(CHOOSE salt \in Salts : TRUE)

\* a hash that stores the data as it is
bcrypt_hash_plain(data, salt) == data

\* bcrypt.hash(data, 10) with the salt the library generated
bcrypt_hash(data, salt) == HashPrefix \o salt \o "#" \o data

\* a comparison that accepts every password
bcrypt_compare_any(data, encrypted) == TRUE

\* bcrypt.compare(data, encrypted): rehash data with the salt found in
\* encrypted and compare; anything that is not a bcrypt hash compares false
bcrypt_compare(data, encrypted) ==
    /\ Len(encrypted) >= PrefixLen + SaltLen
    /\ SubSeq(encrypted, 1, PrefixLen) = HashPrefix
    /\ bcrypt_hash(data, SubSeq(encrypted, PrefixLen + 1, PrefixLen + SaltLen)) = encrypted

---------------------------------------------------------------------------
(* The user repository *)

NoUser == 0

\* an email lookup that never finds a row
findOneByEmail_none(store, email) == NoUser

\* userRepo.findOne({ where: { email } }): index of the first row, or NoUser
findOneByEmail(store, email) ==
    IF \E i \in 1..Len(store) : store[i].email = email
    THEN CHOOSE i \in 1..Len(store) :
            /\ store[i].email = email
            /\ \A j \in 1..(i - 1) : store[j].email # email
    ELSE NoUser

\* a username lookup that never finds a row
findOneByUsername_none(store, username) == NoUser

\* userRepo.findOne({ where: { username } })
findOneByUsername(store, username) ==
    IF \E i \in 1..Len(store) : store[i].username = username
    THEN CHOOSE i \in 1..Len(store) :
            /\ store[i].username = username
            /\ \A j \in 1..(i - 1) : store[j].username # username
    ELSE NoUser

\* an entity with name and username exchanged
create_swapped(username, name, email, password) ==
    [username |-> name, name |-> username, email |-> email, password |-> password]

\* userRepo.create({ username, name, email, password }): an entity without id
create(username, name, email, password) ==
    [username |-> username, name |-> name, email |-> email, password |-> password]

\* the id the store generates for a new row
newUserId(store) == Len(store) + 1

\* an insert that silently skips a row whose email is already stored
saveNew_unique(store, user) ==
    IF \E i \in 1..Len(store) : store[i].email = user.email
    THEN store
    ELSE Append(store, [id |-> Len(store) + 1, username |-> user.username,
                        name |-> user.name, email |-> user.email,
                        password |-> user.password])

\* userRepo.save(user) of a new entity: insert, return the row with its id
saveNew(store, user) ==
    Append(store, [id |-> newUserId(store), username |-> user.username,
                   name |-> user.name, email |-> user.email,
                   password |-> user.password])

\* a save of a loaded entity that writes its password into every row
saveExisting_all(store, user) ==
    [i \in 1..Len(store) |-> [store[i] EXCEPT !.password = user.password]]

\* a save of a loaded entity that writes nothing
saveExisting_lost(store, user) == store

\* userRepo.save(user) of a loaded entity: update the row with that id
saveExisting(store, user) ==
    [i \in 1..Len(store) |-> IF store[i].id = user.id THEN user ELSE store[i]]

---------------------------------------------------------------------------
(* Responses *)

Exception(kind, message) == [exception |-> kind, message |-> message]

IsException(response) == "exception" \in DOMAIN response

Outcome(store, response, calls) ==
    [store |-> store, response |-> response, calls |-> calls]

\* a collaborator call made to fail: the hashing primitive or the store write
Faults == {"none", "hash", "save"}

\* the failure of an insert that breaks a unique index
UniqueViolation == Exception("QueryFailedError", "duplicate key value")

\* userRepo.save(user) of a new entity under the schema's unique indexes on
\* email and username: the insert, or the store's failure and no row
saveNewUnique(store, user) ==
    IF \/ \E i \in 1..Len(store) : store[i].email = user.email
       \/ \E i \in 1..Len(store) : store[i].username = user.username
    THEN Outcome(store, UniqueViolation, <<"save">>)
    ELSE LET saved == saveNew(store, user)
         IN Outcome(saved, [row |-> saved[Len(saved)]], <<"save">>)

---------------------------------------------------------------------------
(* The token issuer (JwtService) and the token the guard verifies *)

TokenTTL == 1
Secret == "JWT_SECRET"

\* jwtService.sign(payload): the claims, issue and expiry time, signature
sign(payload, time) ==
    [sub |-> payload.sub, username |-> payload.username,
     iat |-> time, exp |-> time + TokenTTL, sig |-> Secret]

---------------------------------------------------------------------------
(* AuthService *)

\* register with the username looked up before the email
register_usernameFirst(store, email, name, username, password, salt, fault) ==
    LET usedUserName == findOneByUsername(store, username) IN
    IF usedUserName # NoUser
    THEN Outcome(store,
                 Exception("ConflictException", "Username is already taken"),
                 <<"findOne:username">>)
    ELSE
    LET existedUser == findOneByEmail(store, email) IN
    IF existedUser # NoUser
    THEN Outcome(store,
                 Exception("ConflictException", "User already exists with this email"),
                 <<"findOne:username", "findOne:email">>)
    ELSE
    IF fault = "hash" \/ password.type # "string"
    THEN Outcome(store, Exception("Error", "bcrypt.hash"),
                 <<"findOne:username", "findOne:email", "bcrypt.hash">>)
    ELSE
    IF fault = "save"
    THEN Outcome(store, Exception("Error", "userRepo.save"),
                 <<"findOne:username", "findOne:email", "bcrypt.hash", "create", "save">>)
    ELSE
    LET saved == saveNew(store, create(username, name, email,
                                       bcrypt_hash(password.val, salt)))
        res == saved[Len(saved)]
    IN Outcome(saved,
               [message |-> "User created successfully!",
                user |-> [id |-> res.id, username |-> res.username,
                          name |-> res.name, email |-> res.email]],
               <<"findOne:username", "findOne:email", "bcrypt.hash", "create", "save">>)

\* register with the length policy of resetPassword applied to the password
register_minLength(store, email, name, username, password, salt, fault) ==
    IF findOneByEmail(store, email) # NoUser
    THEN Outcome(store,
                 Exception("ConflictException", "User already exists with this email"),
                 <<"findOne:email">>)
    ELSE
    IF findOneByUsername(store, username) # NoUser
    THEN Outcome(store,
                 Exception("ConflictException", "Username is already taken"),
                 <<"findOne:email", "findOne:username">>)
    ELSE
    IF Falsy(password) \/ Len(password.val) < 6
    THEN Outcome(store,
                 Exception("BadRequestException",
                           "Password must be at least 6 characters long"),
                 <<"findOne:email", "findOne:username">>)
    ELSE
    IF fault = "hash"
    THEN Outcome(store, Exception("Error", "bcrypt.hash"),
                 <<"findOne:email", "findOne:username", "bcrypt.hash">>)
    ELSE
    IF fault = "save"
    THEN Outcome(store, Exception("Error", "userRepo.save"),
                 <<"findOne:email", "findOne:username", "bcrypt.hash", "create", "save">>)
    ELSE
    LET saved == saveNew(store, create(username, name, email,
                                       bcrypt_hash(password.val, salt)))
        res == saved[Len(saved)]
    IN Outcome(saved,
               [message |-> "User created successfully!",
                user |-> [id |-> res.id, username |-> res.username,
                          name |-> res.name, email |-> res.email]],
               <<"findOne:email", "findOne:username", "bcrypt.hash", "create", "save">>)

\* register that answers a failed hash or save with a BadRequestException
register_wraps(store, email, name, username, password, salt, fault) ==
    IF findOneByEmail(store, email) # NoUser
    THEN Outcome(store,
                 Exception("ConflictException", "User already exists with this email"),
                 <<"findOne:email">>)
    ELSE
    IF findOneByUsername(store, username) # NoUser
    THEN Outcome(store,
                 Exception("ConflictException", "Username is already taken"),
                 <<"findOne:email", "findOne:username">>)
    ELSE
    IF fault = "hash" \/ password.type # "string"
    THEN Outcome(store, Exception("BadRequestException", "bcrypt.hash"),
                 <<"findOne:email", "findOne:username", "bcrypt.hash">>)
    ELSE
    IF fault = "save"
    THEN Outcome(store, Exception("BadRequestException", "userRepo.save"),
                 <<"findOne:email", "findOne:username", "bcrypt.hash", "create", "save">>)
    ELSE
    LET saved == saveNew(store, create(username, name, email,
                                       bcrypt_hash(password.val, salt)))
        res == saved[Len(saved)]
    IN Outcome(saved,
               [message |-> "User created successfully!",
                user |-> [id |-> res.id, username |-> res.username,
                          name |-> res.name, email |-> res.email]],
               <<"findOne:email", "findOne:username", "bcrypt.hash", "create", "save">>)

\* AuthService.register
register(store, email, name, username, password, salt, fault) ==
    LET existedUser == findOneByEmail(store, email) IN
    IF existedUser # NoUser
    THEN Outcome(store,
                 Exception("ConflictException", "User already exists with this email"),
                 <<"findOne:email">>)
    ELSE
    LET usedUserName == findOneByUsername(store, username) IN
    IF usedUserName # NoUser
    THEN Outcome(store,
                 Exception("ConflictException", "Username is already taken"),
                 <<"findOne:email", "findOne:username">>)
    ELSE
    IF fault = "hash" \/ password.type # "string"
    THEN Outcome(store, Exception("Error", "bcrypt.hash"),
                 <<"findOne:email", "findOne:username", "bcrypt.hash">>)
    ELSE
    LET hashed == bcrypt_hash(password.val, salt)
        user == create(username, name, email, hashed)
    IN
    IF fault = "save"
    THEN Outcome(store, Exception("Error", "userRepo.save"),
                 <<"findOne:email", "findOne:username", "bcrypt.hash", "create", "save">>)
    ELSE
    LET saved == saveNew(store, user)
        res == saved[Len(saved)]
    IN Outcome(saved,
               [message |-> "User created successfully!",
                user |-> [id |-> res.id, username |-> res.username,
                          name |-> res.name, email |-> res.email]],
               <<"findOne:email", "findOne:username", "bcrypt.hash", "create", "save">>)

\* a payload that names the user by display name
payloadOf_name(user) == [sub |-> user.id, username |-> user.name]

\* a payload that names the user by email
payloadOf_email(user) == [sub |-> user.id, username |-> user.email]

\* const payload = { sub: existedUser.id, username: existedUser.username }
payloadOf(user) == [sub |-> user.id, username |-> user.username]

\* login with the token signed before the password is compared
login_signsFirst(store, email, password, time) ==
    LET existedUser == findOneByEmail(store, email) IN
    IF existedUser = NoUser
    THEN Outcome(store, Exception("UnauthorizedException", "User Not Found"),
                 <<"findOne:email">>)
    ELSE
    LET accessToken == sign(payloadOf(store[existedUser]), time) IN
    IF password.type # "string"
    THEN Outcome(store, Exception("Error", "bcrypt.compare"),
                 <<"findOne:email", "sign", "bcrypt.compare">>)
    ELSE
    IF ~bcrypt_compare(password.val, store[existedUser].password)
    THEN Outcome(store, Exception("UnauthorizedException", "Invalid Password"),
                 <<"findOne:email", "sign", "bcrypt.compare">>)
    ELSE Outcome(store,
                 [message |-> "Login successful",
                  name |-> store[existedUser].name,
                  accessToken |-> accessToken],
                 <<"findOne:email", "sign", "bcrypt.compare">>)

\* AuthService.login
login(store, email, password, time) ==
    LET existedUser == findOneByEmail(store, email) IN
    IF existedUser = NoUser
    THEN Outcome(store, Exception("UnauthorizedException", "User Not Found"),
                 <<"findOne:email">>)
    ELSE
    IF password.type # "string"
    THEN Outcome(store, Exception("Error", "bcrypt.compare"),
                 <<"findOne:email", "bcrypt.compare">>)
    ELSE
    LET isPasswordValid == bcrypt_compare(password.val, store[existedUser].password) IN
    IF ~isPasswordValid
    THEN Outcome(store, Exception("UnauthorizedException", "Invalid Password"),
                 <<"findOne:email", "bcrypt.compare">>)
    ELSE
    LET payload == payloadOf(store[existedUser])
        accessToken == sign(payload, time)
    IN Outcome(store,
               [message |-> "Login successful",
                name |-> store[existedUser].name,
                accessToken |-> accessToken],
               <<"findOne:email", "bcrypt.compare", "sign">>)

\* a length policy that also rejects six characters
tooShort_six(newPassword) == Falsy(newPassword) \/ Len(newPassword.val) <= 6

\* the length policy of resetPassword: !newPassword || newPassword.length < 6
tooShort(newPassword) == Falsy(newPassword) \/ Len(newPassword.val) < 6

\* resetPassword with the length of newPassword checked before oldPassword
resetPassword_lengthFirst(store, email, oldPassword, newPassword, salt, fault) ==
    LET found == findOneByEmail(store, email) IN
    IF found = NoUser
    THEN Outcome(store, Exception("NotFoundException", "No user found with this email"),
                 <<"findOne:email">>)
    ELSE
    IF tooShort(newPassword)
    THEN Outcome(store,
                 Exception("BadRequestException",
                           "New password must be at least 6 characters long"),
                 <<"findOne:email">>)
    ELSE
    IF oldPassword.type # "string"
    THEN Outcome(store, Exception("Error", "bcrypt.compare"),
                 <<"findOne:email", "bcrypt.compare">>)
    ELSE
    IF ~bcrypt_compare(oldPassword.val, store[found].password)
    THEN Outcome(store, Exception("UnauthorizedException", "Old password is incorrect"),
                 <<"findOne:email", "bcrypt.compare">>)
    ELSE
    IF fault = "hash"
    THEN Outcome(store, Exception("Error", "bcrypt.hash"),
                 <<"findOne:email", "bcrypt.compare", "bcrypt.hash">>)
    ELSE
    IF fault = "save"
    THEN Outcome(store, Exception("Error", "userRepo.save"),
                 <<"findOne:email", "bcrypt.compare", "bcrypt.hash", "save">>)
    ELSE Outcome(saveExisting(store, [store[found] EXCEPT
                                         !.password = bcrypt_hash(newPassword.val, salt)]),
                 [message |-> "Password changed successfully!"],
                 <<"findOne:email", "bcrypt.compare", "bcrypt.hash", "save">>)

\* resetPassword whose failed save has already written the new hash
resetPassword_partial(store, email, oldPassword, newPassword, salt, fault) ==
    LET found == findOneByEmail(store, email) IN
    IF found = NoUser
    THEN Outcome(store, Exception("NotFoundException", "No user found with this email"),
                 <<"findOne:email">>)
    ELSE
    IF oldPassword.type # "string"
    THEN Outcome(store, Exception("Error", "bcrypt.compare"),
                 <<"findOne:email", "bcrypt.compare">>)
    ELSE
    IF ~bcrypt_compare(oldPassword.val, store[found].password)
    THEN Outcome(store, Exception("UnauthorizedException", "Old password is incorrect"),
                 <<"findOne:email", "bcrypt.compare">>)
    ELSE
    IF tooShort(newPassword)
    THEN Outcome(store,
                 Exception("BadRequestException",
                           "New password must be at least 6 characters long"),
                 <<"findOne:email", "bcrypt.compare">>)
    ELSE
    IF fault = "hash"
    THEN Outcome(store, Exception("Error", "bcrypt.hash"),
                 <<"findOne:email", "bcrypt.compare", "bcrypt.hash">>)
    ELSE
    IF fault = "save"
    THEN Outcome(saveExisting(store, [store[found] EXCEPT
                                         !.password = bcrypt_hash(newPassword.val, "s2")]),
                 Exception("Error", "userRepo.save"),
                 <<"findOne:email", "bcrypt.compare", "bcrypt.hash", "save">>)
    ELSE Outcome(saveExisting(store, [store[found] EXCEPT
                                         !.password = bcrypt_hash(newPassword.val, salt)]),
                 [message |-> "Password changed successfully!"],
                 <<"findOne:email", "bcrypt.compare", "bcrypt.hash", "save">>)

\* AuthService.resetPassword
resetPassword(store, email, oldPassword, newPassword, salt, fault) ==
    LET found == findOneByEmail(store, email) IN
    IF found = NoUser
    THEN Outcome(store, Exception("NotFoundException", "No user found with this email"),
                 <<"findOne:email">>)
    ELSE
    IF oldPassword.type # "string"
    THEN Outcome(store, Exception("Error", "bcrypt.compare"),
                 <<"findOne:email", "bcrypt.compare">>)
    ELSE
    LET user == store[found]
        isOldPasswordValid == bcrypt_compare(oldPassword.val, user.password)
    IN
    IF ~isOldPasswordValid
    THEN Outcome(store, Exception("UnauthorizedException", "Old password is incorrect"),
                 <<"findOne:email", "bcrypt.compare">>)
    ELSE
    IF tooShort(newPassword)
    THEN Outcome(store,
                 Exception("BadRequestException",
                           "New password must be at least 6 characters long"),
                 <<"findOne:email", "bcrypt.compare">>)
    ELSE
    IF fault = "hash"
    THEN Outcome(store, Exception("Error", "bcrypt.hash"),
                 <<"findOne:email", "bcrypt.compare", "bcrypt.hash">>)
    ELSE
    LET hashed == bcrypt_hash(newPassword.val, salt)
        changed == [user EXCEPT !.password = hashed]
    IN
    IF fault = "save"
    THEN Outcome(store, Exception("Error", "userRepo.save"),
                 <<"findOne:email", "bcrypt.compare", "bcrypt.hash", "save">>)
    ELSE Outcome(saveExisting(store, changed),
                 [message |-> "Password changed successfully!"],
                 <<"findOne:email", "bcrypt.compare", "bcrypt.hash", "save">>)

---------------------------------------------------------------------------
(* UpperCasePipe *)

Lower == "abcdefghijklmnopqrstuvwxyz"
Upper == "ABCDEFGHIJKLMNOPQRSTUVWXYZ"

\* the upper-case form of one character
UpperChar(c) ==
    IF \E i \in 1..Len(Lower) : SubSeq(Lower, i, i) = c
    THEN LET i == CHOOSE k \in 1..Len(Lower) : SubSeq(Lower, k, k) = c
         IN SubSeq(Upper, i, i)
    ELSE c

RECURSIVE toUpperCase(_)
\* String.prototype.toUpperCase
toUpperCase(s) ==
    IF s = "" THEN ""
    ELSE UpperChar(SubSeq(s, 1, 1)) \o toUpperCase(SubSeq(s, 2, Len(s)))

\* UpperCasePipe.transform on a request body (an object of JavaScript values)
UpperCasePipe(value) ==
    [key \in DOMAIN value |->
        IF value[key].type = "string"
        THEN Str(toUpperCase(value[key].val))
        ELSE value[key]]

\* JavaScript values other than null, strings and booleans
Undefined == [type |-> "undefined", val |-> ""]
Num(n) == [type |-> "number", val |-> n]
Obj(fields) == [type |-> "object", val |-> fields]

\* typeof value: null is an "object"
typeof(value) == IF value.type = "null" THEN Str("object") ELSE Str(value.type)

\* UpperCasePipe.transform: the result it returns, or the exception it throws.
\* The second test of the first condition compares the string typeof gives
\* with null, and for..in over null visits no key
transform(value) ==
    IF typeof(value) = Str("object") /\ typeof(value) # Null
    THEN IF value.type = "null"
         THEN [value |-> value]
         ELSE [value |-> Obj(UpperCasePipe(value.val))]
    ELSE IF typeof(value) = Str("string")
    THEN [value |-> Str(toUpperCase(value.val))]
    ELSE Exception("BadRequestException",
                   "Validation failed: value must be string or object")

---------------------------------------------------------------------------
(* The task repository and TasksService *)

NoTask == 0

\* tasksRepo.findOne({ where: { id } }): index of the row, or NoTask
findTask(store, id) ==
    IF \E i \in 1..Len(store) : store[i].id = id
    THEN CHOOSE i \in 1..Len(store) : store[i].id = id
    ELSE NoTask

\* createTask whose id is the number of stored rows plus one
createTask_reusesId(store, count, title, description) ==
    LET task == [id |-> Len(store) + 1, title |-> title,
                 description |-> description, completed |-> FALSE]
    IN Outcome(Append(store, task), [task |-> task], <<"create", "save">>)

\* TasksService.createTask; the store generates the id and the default of
\* completed on insert, and save writes both back into the entity
createTask(store, count, title, description) ==
    LET task == [id |-> count + 1, title |-> title,
                 description |-> description, completed |-> FALSE]
    IN Outcome(Append(store, task), [task |-> task], <<"create", "save">>)

\* TasksService.getAllTasks
getAllTasks(store) == Outcome(store, [tasks |-> store], <<"find">>)

\* TasksService.getTaskById
getTaskById(store, id) ==
    LET i == findTask(store, id) IN
    IF i = NoTask
    THEN Outcome(store, [null |-> TRUE], <<"findOne">>)
    ELSE Outcome(store, [task |-> store[i]], <<"findOne">>)

\* value ?? fallback
Coalesce(value, fallback) == IF value.type = "null" THEN fallback ELSE value.val

\* a save that only updates a row that is still stored
saveTask_updateOnly(store, task) ==
    [i \in 1..Len(store) |-> IF store[i].id = task.id THEN task ELSE store[i]]

\* tasksRepo.save(task) of a loaded entity: update the row with its id, or
\* insert the entity when no row has that id
saveTask(store, task) ==
    IF findTask(store, task.id) = NoTask
    THEN Append(store, task)
    ELSE [i \in 1..Len(store) |-> IF store[i].id = task.id THEN task ELSE store[i]]

\* updateTask that assigns the fields as given, null or not
updateTask_overwrites(store, id, title, description, completed) ==
    LET i == findTask(store, id) IN
    IF i = NoTask
    THEN Outcome(store, [null |-> TRUE], <<"findOne">>)
    ELSE
    LET task == [id |-> store[i].id,
                 title |-> title.val,
                 description |-> description.val,
                 completed |-> Coalesce(completed, FALSE)]
    IN Outcome([store EXCEPT ![i] = task], [task |-> task], <<"findOne", "save">>)

\* updateTask that stores a new task when the id is unknown
updateTask_upsert(store, id, title, description, completed) ==
    LET i == findTask(store, id) IN
    IF i = NoTask
    THEN LET task == [id |-> id, title |-> Coalesce(title, ""),
                      description |-> Coalesce(description, ""),
                      completed |-> Coalesce(completed, FALSE)]
         IN Outcome(Append(store, task), [task |-> task], <<"findOne", "save">>)
    ELSE
    LET task == [id |-> store[i].id,
                 title |-> Coalesce(title, store[i].title),
                 description |-> Coalesce(description, store[i].description),
                 completed |-> Coalesce(completed, store[i].completed)]
    IN Outcome([store EXCEPT ![i] = task], [task |-> task], <<"findOne", "save">>)

\* TasksService.updateTask
updateTask(store, id, title, description, completed) ==
    LET i == findTask(store, id) IN
    IF i = NoTask
    THEN Outcome(store, [null |-> TRUE], <<"findOne">>)
    ELSE
    LET task == [id |-> store[i].id,
                 title |-> Coalesce(title, store[i].title),
                 description |-> Coalesce(description, store[i].description),
                 completed |-> Coalesce(completed, store[i].completed)]
    IN Outcome([store EXCEPT ![i] = task], [task |-> task], <<"findOne", "save">>)

\* deleteTask that reports an id that matched no row
deleteTask_notFound(store, id) ==
    IF findTask(store, id) = NoTask
    THEN Outcome(store, Exception("NotFoundException", "Task not found"), <<"delete">>)
    ELSE Outcome(SelectSeq(store, LAMBDA row : row.id # id),
                 [text |-> "Task Deleted Successfully!"], <<"delete">>)

\* TasksService.deleteTask
deleteTask(store, id) ==
    Outcome(SelectSeq(store, LAMBDA row : row.id # id),
            [text |-> "Task Deleted Successfully!"], <<"delete">>)

---------------------------------------------------------------------------
(* Routes, and the guard in front of the task routes *)

AuthRoutes == {"POST /auth/register", "POST /auth/login", "POST /auth/reset-password"}

TaskRoutes == {"GET /tasks", "GET /tasks/:id", "POST /tasks",
               "PUT /tasks/:id/update", "DELETE /tasks/:id"}

\* no guard on any route
UseGuards_none(route) == FALSE

\* the guard left off the list route
UseGuards_notOnList(route) == route \in TaskRoutes \ {"GET /tasks"}

\* @UseGuards(JwtAuthGuard) on TasksController: the routes the guard runs on
UseGuards(route) == route \in TaskRoutes

\* the Authorization header of a request
NoHeader == [kind |-> "none"]
Malformed == [kind |-> "malformed"]
Bearer(token) == [kind |-> "bearer", token |-> token]

\* JwtAuthGuard.canActivate: a bearer token whose signature verifies and
\* whose expiry has not passed
JwtAuthGuard(header, time) ==
    /\ header.kind = "bearer"
    /\ header.token.sig = Secret
    /\ time < header.token.exp

\* a guard wiring that admits only the tokens of the first user
Request_firstUserOnly(route, header, time, store, handled) ==
    IF UseGuards(route) /\ ~(JwtAuthGuard(header, time) /\ header.token.sub = 1)
    THEN Outcome(store, Exception("UnauthorizedException", "Unauthorized"), <<>>)
    ELSE handled

\* a request to a route: the guard, when the route has one, then the handler
Request(route, header, time, store, handled) ==
    IF UseGuards(route) /\ ~JwtAuthGuard(header, time)
    THEN Outcome(store, Exception("UnauthorizedException", "Unauthorized"), <<>>)
    ELSE handled

\* a middleware that turns away requests without a bearer token
use_checksHeader(req) ==
    IF req.header.kind = "bearer"
    THEN Outcome(req, [next |-> req], <<"console.log", "next">>)
    ELSE Outcome(req, Exception("UnauthorizedException", "Unauthorized"), <<>>)

\* AuthMiddleware.use(req, res, next): reads req.body, logs it, calls next();
\* the request goes on as it came and res is not touched
use(req) ==
    LET authHeader == req.body
    IN Outcome(req, [next |-> req], <<"console.log", "next">>)

---------------------------------------------------------------------------
(* State machine *)

Titles == {"Call"}
Descriptions == {""}
TaskIdArgs == 1..MaxTaskIds

NoArgs == [none |-> TRUE]

\* concurrent requests, each an async call that yields at its awaits
Callers == 1..MaxCallers
Idle == [pc |-> "idle", args |-> NoArgs, hashed |-> ""]

Call(op, args, header, out) ==
    [op |-> op, args |-> args, header |-> header,
     response |-> out.response, calls |-> out.calls]

Init ==
    /\ users = <<>>
    /\ tasks = <<>>
    /\ nextTaskId = 0
    /\ now = 0
    /\ held = {}
    /\ last = [op |-> "none", args |-> NoArgs, header |-> NoHeader,
               response |-> [none |-> TRUE], calls |-> <<>>]
    /\ pending = [caller \in Callers |-> Idle]

\* the library draws a salt only when hashing is not made to fail
SaltsFor(salts, fault) ==
    IF fault = "none" THEN salts ELSE {CHOOSE salt \in salts : TRUE}

\* POST /auth/register
Register(emails, usernames, passwords, salts, faults) ==
    \E email \in emails, name \in Names, username \in usernames,
       password \in passwords, fault \in faults :
      \E salt \in SaltsFor(salts, fault) :
        LET out == Request("POST /auth/register", NoHeader, now, users,
                           register(users, email, name, username, password, salt, fault))
        IN /\ Len(out.store) <= MaxUsers
           /\ users' = out.store
           /\ last' = Call("POST /auth/register",
                           [email |-> email, name |-> name, username |-> username,
                            password |-> password],
                           NoHeader, out)
           /\ UNCHANGED <<tasks, nextTaskId, now, held, pending>>

\* POST /auth/login; the client may keep the token of a successful login
Login(emails, passwords, keeps) ==
    \E email \in emails, password \in passwords, keep \in keeps :
        LET out == Request("POST /auth/login", NoHeader, now, users,
                           login(users, email, password, now))
        IN /\ users' = out.store
           /\ last' = Call("POST /auth/login",
                           [email |-> email, password |-> password],
                           NoHeader, out)
           /\ held' = IF /\ keep
                         /\ ~IsException(out.response)
                         /\ Cardinality(held \cup {out.response.accessToken}) <= MaxHeld
                      THEN held \cup {out.response.accessToken}
                      ELSE held
           /\ UNCHANGED <<tasks, nextTaskId, now, pending>>

\* POST /auth/reset-password
ResetPassword(emails, passwords, salts, faults) ==
    \E email \in emails, oldPassword \in passwords, newPassword \in passwords,
       fault \in faults :
      \E salt \in SaltsFor(salts, fault) :
        LET out == Request("POST /auth/reset-password", NoHeader, now, users,
                           resetPassword(users, email, oldPassword, newPassword, salt, fault))
        IN /\ users' = out.store
           /\ last' = Call("POST /auth/reset-password",
                           [email |-> email, oldPassword |-> oldPassword,
                            newPassword |-> newPassword],
                           NoHeader, out)
           /\ UNCHANGED <<tasks, nextTaskId, now, held, pending>>

\* the Authorization headers a client can send at a time: none, a malformed
\* one, a token it holds, or a token signed with another key
Headers(tokens, time) ==
    {NoHeader, Malformed}
        \cup {Bearer(t) : t \in tokens}
        \cup {Bearer([sub |-> 1, username |-> "a1", iat |-> time,
                      exp |-> time + TokenTTL, sig |-> "forged"])}

\* POST /tasks
PostTask ==
    \E header \in Headers(held, now), title \in Titles, description \in Descriptions :
        LET body == [title |-> Str(title), description |-> Str(description)]
            dto == UpperCasePipe(body)
            out == Request("POST /tasks", header, now, tasks,
                           createTask(tasks, nextTaskId, dto.title.val, dto.description.val))
        IN /\ out.calls = <<>> \/ nextTaskId < MaxTaskIds
           /\ tasks' = out.store
           /\ nextTaskId' = IF out.calls = <<>> THEN nextTaskId ELSE nextTaskId + 1
           /\ last' = Call("POST /tasks", body, header, out)
           /\ UNCHANGED <<users, now, held, pending>>

\* GET /tasks
GetTasks ==
    \E header \in Headers(held, now) :
        LET out == Request("GET /tasks", header, now, tasks, getAllTasks(tasks))
        IN /\ tasks' = out.store
           /\ last' = Call("GET /tasks", NoArgs, header, out)
           /\ UNCHANGED <<users, nextTaskId, now, held, pending>>

\* GET /tasks/:id
GetTask ==
    \E header \in Headers(held, now), id \in TaskIdArgs :
        LET out == Request("GET /tasks/:id", header, now, tasks, getTaskById(tasks, id))
        IN /\ tasks' = out.store
           /\ last' = Call("GET /tasks/:id", [id |-> id], header, out)
           /\ UNCHANGED <<users, nextTaskId, now, held, pending>>

\* TasksController.updateTask: the service's null becomes a message
updateTaskRoute(store, id, title, description, completed) ==
    LET out == updateTask(store, id, title, description, completed) IN
    IF "null" \in DOMAIN out.response
    THEN Outcome(out.store, [text |-> "No task was found with this id"], out.calls)
    ELSE out

\* PUT /tasks/:id/update
PutTask(titles, descriptions, completeds) ==
    \E header \in Headers(held, now), id \in TaskIdArgs,
       title \in titles, description \in descriptions, completed \in completeds :
        LET out == Request("PUT /tasks/:id/update", header, now, tasks,
                           updateTaskRoute(tasks, id, title, description, completed))
        IN /\ tasks' = out.store
           /\ last' = Call("PUT /tasks/:id/update",
                           [id |-> id, title |-> title, description |-> description,
                            completed |-> completed],
                           header, out)
           /\ UNCHANGED <<users, nextTaskId, now, held, pending>>

\* DELETE /tasks/:id
DeleteTask ==
    \E header \in Headers(held, now), id \in TaskIdArgs :
        LET out == Request("DELETE /tasks/:id", header, now, tasks, deleteTask(tasks, id))
        IN /\ tasks' = out.store
           /\ last' = Call("DELETE /tasks/:id", [id |-> id], header, out)
           /\ UNCHANGED <<users, nextTaskId, now, held, pending>>

\* time passes
Tick ==
    /\ now < MaxTime
    /\ now' = now + 1
    /\ UNCHANGED <<users, tasks, nextTaskId, held, last, pending>>

\* The credential service on its own: requests handled one at a time
Next ==
    \/ Register(Emails, Usernames, Passwords, Salts, Faults)
    \/ Login(Emails, Passwords, {FALSE})
    \/ ResetPassword(Emails, Passwords, Salts, Faults)

Spec == Init /\ [][Next]_vars

\* The guarded task routes, with one user who logs in for tokens
NextTasks ==
    \/ Register({"a@x.com"}, {"a1"}, {Str("secret1")}, {"s1"}, {"none"})
    \/ Login({"a@x.com"}, {Str("secret1")}, {TRUE})
    \/ Tick
    \/ PostTask
    \/ GetTasks
    \/ GetTask
    \/ PutTask({Str("Call")}, {Null}, {Bool(TRUE)})
    \/ DeleteTask

SpecTasks == Init /\ [][NextTasks]_vars

\* Both services together, before any token expires: two users, password
\* resets for one of them, and the guarded task routes
NextAll ==
    \/ Register(Emails, Usernames, {Str("secret1")}, {"s1"}, Faults)
    \/ Login(Emails, {Str("secret1")}, {TRUE})
    \/ ResetPassword({"a@x.com"}, {Str("secret1"), Str("123456")}, {"s1"}, Faults)
    \/ PostTask
    \/ GetTasks
    \/ GetTask
    \/ PutTask({Str("Call")}, {Null}, {Bool(TRUE)})
    \/ DeleteTask

SpecAll == Init /\ [][NextAll]_vars

\* Tokens over time: one user who logs in and resets the password, the
\* clock, and a guarded route
NextTokens ==
    \/ Register({"a@x.com"}, {"a1"}, {Str("secret1")}, {"s1"}, {"none"})
    \/ Login({"a@x.com"}, {Str("secret1"), Str("123456")}, {TRUE})
    \/ ResetPassword({"a@x.com"}, {Str("secret1"), Str("123456")}, {"s1"}, {"none"})
    \/ Tick
    \/ GetTasks

SpecTokens == Init /\ [][NextTokens]_vars

\* Two users and the task routes, with tasks created only through requests
\* that present the first user's tokens (or are turned away)
PostTaskBy(subs) ==
    /\ PostTask
    /\ last'.header.kind = "bearer" => last'.header.token.sub \in subs

NextOwners ==
    \/ Register(Emails, Usernames, {Str("secret1")}, {"s1"}, {"none"})
    \/ Login(Emails, {Str("secret1")}, {TRUE})
    \/ PostTaskBy({1})
    \/ GetTasks
    \/ GetTask
    \/ PutTask({Str("Call")}, {Null}, {Bool(TRUE)})
    \/ DeleteTask

SpecOwners == Init /\ [][NextOwners]_vars

\* AuthService.register as the event loop runs it: one step per await, and
\* other requests' steps may come between.  The call starts and its email
\* lookup resolves
RegisterFindEmail(caller, emails, usernames, passwords) ==
    /\ pending[caller].pc = "idle"
    /\ \E email \in emails, name \in Names, username \in usernames,
          password \in passwords :
          LET args == [email |-> email, name |-> name, username |-> username,
                       password |-> password]
              existedUser == findOneByEmail(users, email)
          IN IF existedUser # NoUser
             THEN /\ last' = Call("POST /auth/register", args, NoHeader,
                                  Outcome(users,
                                          Exception("ConflictException",
                                                    "User already exists with this email"),
                                          <<"findOne:email">>))
                  /\ UNCHANGED pending
             ELSE /\ pending' = [pending EXCEPT ![caller] =
                                    [pc |-> "findOne:username", args |-> args,
                                     hashed |-> ""]]
                  /\ UNCHANGED last
    /\ UNCHANGED <<users, tasks, nextTaskId, now, held>>

\* the username lookup resolves
RegisterFindUsername(caller) ==
    /\ pending[caller].pc = "findOne:username"
    /\ LET args == pending[caller].args
           usedUserName == findOneByUsername(users, args.username)
       IN IF usedUserName # NoUser
          THEN /\ last' = Call("POST /auth/register", args, NoHeader,
                               Outcome(users,
                                       Exception("ConflictException",
                                                 "Username is already taken"),
                                       <<"findOne:email", "findOne:username">>))
               /\ pending' = [pending EXCEPT ![caller] = Idle]
          ELSE /\ pending' = [pending EXCEPT ![caller].pc = "bcrypt.hash"]
               /\ UNCHANGED last
    /\ UNCHANGED <<users, tasks, nextTaskId, now, held>>

\* the hash resolves
RegisterHash(caller, salts) ==
    /\ pending[caller].pc = "bcrypt.hash"
    /\ \E salt \in salts :
          pending' = [pending EXCEPT
                        ![caller].pc = "save",
                        ![caller].hashed =
                            bcrypt_hash(pending[caller].args.password.val, salt)]
    /\ UNCHANGED <<users, tasks, nextTaskId, now, held, last>>

\* create, then the save resolves and the call returns
RegisterSave(caller) ==
    /\ pending[caller].pc = "save"
    /\ LET args == pending[caller].args
           user == create(args.username, args.name, args.email, pending[caller].hashed)
           saved == saveNew(users, user)
           res == saved[Len(saved)]
       IN /\ Len(saved) <= MaxUsers
          /\ users' = saved
          /\ last' = Call("POST /auth/register", args, NoHeader,
                          Outcome(saved,
                                  [message |-> "User created successfully!",
                                   user |-> [id |-> res.id, username |-> res.username,
                                             name |-> res.name, email |-> res.email]],
                                  <<"findOne:email", "findOne:username",
                                    "bcrypt.hash", "create", "save">>))
    /\ pending' = [pending EXCEPT ![caller] = Idle]
    /\ UNCHANGED <<tasks, nextTaskId, now, held>>

\* Concurrent registrations, and logins
NextRace ==
    \/ \E caller \in Callers :
          RegisterFindEmail(caller, Emails, Usernames, {Str("secret1")})
    \/ \E caller \in Callers : RegisterFindUsername(caller)
    \/ \E caller \in Callers : RegisterHash(caller, {"s1"})
    \/ \E caller \in Callers : RegisterSave(caller)
    \/ Login({"a@x.com"}, {Str("secret1")}, {FALSE})

SpecRace == Init /\ [][NextRace]_vars

\* The task routes on their own: one user, and updates that supply or omit
\* each field
NextCrud ==
    \/ Register({"a@x.com"}, {"a1"}, {Str("secret1")}, {"s1"}, {"none"})
    \/ Login({"a@x.com"}, {Str("secret1")}, {TRUE})
    \/ PostTask
    \/ GetTasks
    \/ GetTask
    \/ PutTask({Null, Str("Mail")}, {Null, Str("note")}, {Bool(TRUE), Bool(FALSE)})
    \/ DeleteTask

SpecCrud == Init /\ [][NextCrud]_vars

\* a save step that answers the store's failure with a ConflictException
RegisterSaveUnique_conflict(caller) ==
    /\ pending[caller].pc = "save"
    /\ LET args == pending[caller].args
           user == create(args.username, args.name, args.email, pending[caller].hashed)
           out == saveNewUnique(users, user)
           calls == <<"findOne:email", "findOne:username", "bcrypt.hash", "create", "save">>
       IN /\ Len(out.store) <= MaxUsers
          /\ users' = out.store
          /\ last' = Call("POST /auth/register", args, NoHeader,
                          IF IsException(out.response)
                          THEN Outcome(out.store,
                                       Exception("ConflictException",
                                                 "User already exists with this email"),
                                       calls)
                          ELSE Outcome(out.store,
                                       [message |-> "User created successfully!",
                                        user |-> [id |-> out.response.row.id,
                                                  username |-> out.response.row.username,
                                                  name |-> out.response.row.name,
                                                  email |-> out.response.row.email]],
                                       calls))
    /\ pending' = [pending EXCEPT ![caller] = Idle]
    /\ UNCHANGED <<tasks, nextTaskId, now, held>>

\* create, then the save resolves or rejects in a store with unique indexes,
\* and the call returns or throws what the store threw
RegisterSaveUnique(caller) ==
    /\ pending[caller].pc = "save"
    /\ LET args == pending[caller].args
           user == create(args.username, args.name, args.email, pending[caller].hashed)
           out == saveNewUnique(users, user)
           calls == <<"findOne:email", "findOne:username", "bcrypt.hash", "create", "save">>
       IN /\ Len(out.store) <= MaxUsers
          /\ users' = out.store
          /\ last' = Call("POST /auth/register", args, NoHeader,
                          IF IsException(out.response)
                          THEN Outcome(out.store, out.response, calls)
                          ELSE Outcome(out.store,
                                       [message |-> "User created successfully!",
                                        user |-> [id |-> out.response.row.id,
                                                  username |-> out.response.row.username,
                                                  name |-> out.response.row.name,
                                                  email |-> out.response.row.email]],
                                       calls))
    /\ pending' = [pending EXCEPT ![caller] = Idle]
    /\ UNCHANGED <<tasks, nextTaskId, now, held>>

\* Concurrent registrations against a store with unique indexes, and logins
NextRaceUnique ==
    \/ \E caller \in Callers :
          RegisterFindEmail(caller, Emails, Usernames, {Str("secret1")})
    \/ \E caller \in Callers : RegisterFindUsername(caller)
    \/ \E caller \in Callers : RegisterHash(caller, {"s1"})
    \/ \E caller \in Callers : RegisterSaveUnique(caller)
    \/ Login(Emails, {Str("secret1")}, {FALSE})

SpecRaceUnique == Init /\ [][NextRaceUnique]_vars

\* AuthService.resetPassword as the event loop runs it, one step per await.
\* The call starts and findOne resolves with the entity as stored then
ResetFindUser(caller, emails, oldPasswords, newPasswords) ==
    /\ pending[caller].pc = "idle"
    /\ \E email \in emails, oldPassword \in oldPasswords,
          newPassword \in newPasswords :
          LET args == [email |-> email, oldPassword |-> oldPassword,
                       newPassword |-> newPassword]
              found == findOneByEmail(users, email)
          IN IF found = NoUser
             THEN /\ last' = Call("POST /auth/reset-password", args, NoHeader,
                                  Outcome(users,
                                          Exception("NotFoundException",
                                                    "No user found with this email"),
                                          <<"findOne:email">>))
                  /\ UNCHANGED pending
             ELSE /\ pending' = [pending EXCEPT ![caller] =
                                    [pc |-> "reset:bcrypt.compare", args |-> args,
                                     hashed |-> "", user |-> users[found]]]
                  /\ UNCHANGED last
    /\ UNCHANGED <<users, tasks, nextTaskId, now, held>>

\* a comparison step that lets every old password through
ResetCompare_skips(caller) ==
    /\ pending[caller].pc = "reset:bcrypt.compare"
    /\ pending' = [pending EXCEPT ![caller].pc = "reset:bcrypt.hash"]
    /\ UNCHANGED <<users, tasks, nextTaskId, now, held, last>>

\* bcrypt.compare resolves against the loaded entity's hash, then the length
\* check runs
ResetCompare(caller) ==
    /\ pending[caller].pc = "reset:bcrypt.compare"
    /\ LET args == pending[caller].args
           user == pending[caller].user
           failed(response) ==
               /\ last' = Call("POST /auth/reset-password", args, NoHeader,
                               Outcome(users, response,
                                       <<"findOne:email", "bcrypt.compare">>))
               /\ pending' = [pending EXCEPT ![caller] = Idle]
       IN IF args.oldPassword.type # "string"
          THEN failed(Exception("Error", "bcrypt.compare"))
          ELSE IF ~bcrypt_compare(args.oldPassword.val, user.password)
          THEN failed(Exception("UnauthorizedException", "Old password is incorrect"))
          ELSE IF tooShort(args.newPassword)
          THEN failed(Exception("BadRequestException",
                                "New password must be at least 6 characters long"))
          ELSE /\ pending' = [pending EXCEPT ![caller].pc = "reset:bcrypt.hash"]
               /\ UNCHANGED last
    /\ UNCHANGED <<users, tasks, nextTaskId, now, held>>

\* the hash resolves and is assigned to the loaded entity
ResetHash(caller, salts) ==
    /\ pending[caller].pc = "reset:bcrypt.hash"
    /\ \E salt \in salts :
          LET hashed == bcrypt_hash(pending[caller].args.newPassword.val, salt)
          IN pending' = [pending EXCEPT
                           ![caller].pc = "reset:save",
                           ![caller].hashed = hashed,
                           ![caller].user = [@ EXCEPT !.password = hashed]]
    /\ UNCHANGED <<users, tasks, nextTaskId, now, held, last>>

\* the save of the loaded entity resolves and the call returns
ResetSave(caller) ==
    /\ pending[caller].pc = "reset:save"
    /\ LET saved == saveExisting(users, pending[caller].user)
       IN /\ users' = saved
          /\ last' = Call("POST /auth/reset-password", pending[caller].args, NoHeader,
                          Outcome(saved, [message |-> "Password changed successfully!"],
                                  <<"findOne:email", "bcrypt.compare",
                                    "bcrypt.hash", "save">>))
    /\ pending' = [pending EXCEPT ![caller] = Idle]
    /\ UNCHANGED <<tasks, nextTaskId, now, held>>

\* Concurrent password resets of one registered user
NextResetRace ==
    \/ Register({"a@x.com"}, {"a1"}, {Str("secret1")}, {"s1"}, {"none"})
    \/ \E caller \in Callers :
          ResetFindUser(caller, {"a@x.com"}, {Str("secret1"), Str("123456")},
                        {Str("123456"), Str("abcdef")})
    \/ \E caller \in Callers : ResetCompare(caller)
    \/ \E caller \in Callers : ResetHash(caller, {"s1"})
    \/ \E caller \in Callers : ResetSave(caller)

SpecResetRace == Init /\ [][NextResetRace]_vars

\* TasksService.updateTask as the event loop runs it.  The request passes
\* the guard, getTaskById resolves, and the fields are assigned to the
\* loaded entity
UpdateFind(caller, titles, descriptions, completeds) ==
    /\ pending[caller].pc = "idle"
    /\ \E header \in Headers(held, now), id \in TaskIdArgs,
          title \in titles, description \in descriptions, completed \in completeds :
          LET args == [id |-> id, title |-> title, description |-> description,
                       completed |-> completed]
              i == findTask(tasks, id)
              out == Request("PUT /tasks/:id/update", header, now, tasks,
                             Outcome(tasks, [text |-> "No task was found with this id"],
                                     <<"findOne">>))
          IN IF out.calls = <<>> \/ i = NoTask
             THEN /\ last' = Call("PUT /tasks/:id/update", args, header, out)
                  /\ UNCHANGED pending
             ELSE /\ pending' = [pending EXCEPT ![caller] =
                                    [pc |-> "update:save", args |-> args, hashed |-> "",
                                     header |-> header,
                                     task |-> updateTask(tasks, id, title, description,
                                                         completed).response.task]]
                  /\ UNCHANGED last
    /\ UNCHANGED <<users, tasks, nextTaskId, now, held>>

\* the save of the loaded entity resolves and the call returns it
UpdateSave(caller) ==
    /\ pending[caller].pc = "update:save"
    /\ LET task == pending[caller].task
           saved == saveTask(tasks, task)
       IN /\ tasks' = saved
          /\ last' = Call("PUT /tasks/:id/update", pending[caller].args,
                          pending[caller].header,
                          Outcome(saved, [task |-> task], <<"findOne", "save">>))
    /\ pending' = [pending EXCEPT ![caller] = Idle]
    /\ UNCHANGED <<users, nextTaskId, now, held>>

\* Task updates interleaved with creations and deletions
NextTaskRace ==
    \/ Register({"a@x.com"}, {"a1"}, {Str("secret1")}, {"s1"}, {"none"})
    \/ Login({"a@x.com"}, {Str("secret1")}, {TRUE})
    \/ PostTask
    \/ DeleteTask
    \/ \E caller \in Callers : UpdateFind(caller, {Str("Mail")}, {Null}, {Bool(TRUE)})
    \/ \E caller \in Callers : UpdateSave(caller)

SpecTaskRace == Init /\ [][NextTaskRace]_vars

\* values handed to the pipe: every kind of JavaScript value, and request
\* bodies with string and non-string fields
PipeValues ==
    {Null, Undefined, Num(7), Bool(TRUE), Bool(FALSE),
     Str(""), Str("call"), Str("Mail"), Str("CALL")}
      \cup {Obj([title |-> title, description |-> description]) :
               title \in {Str("call"), Str("CALL")},
               description \in {Str(""), Str("note"), Null}}
      \cup {Obj([title |-> Str("Mail"), completed |-> Bool(FALSE), position |-> Num(7)])}

\* the pipe applied to a value
Transform(values) ==
    /\ \E value \in values :
          last' = Call("UpperCasePipe.transform", [value |-> value], NoHeader,
                       Outcome(tasks, transform(value), <<"transform">>))
    /\ UNCHANGED <<users, tasks, nextTaskId, now, held, pending>>

\* The pipe on its own and in front of POST /tasks
NextPipe ==
    \/ Register({"a@x.com"}, {"a1"}, {Str("secret1")}, {"s1"}, {"none"})
    \/ Login({"a@x.com"}, {Str("secret1")}, {TRUE})
    \/ PostTask
    \/ GetTasks
    \/ Transform(PipeValues)

SpecPipe == Init /\ [][NextPipe]_vars

\* a request passes through the middleware
Use(bodies) ==
    /\ \E header \in Headers(held, now), body \in bodies :
          last' = Call("AuthMiddleware.use", [body |-> body], header,
                       use([body |-> body, header |-> header]))
    /\ UNCHANGED <<users, tasks, nextTaskId, now, held, pending>>

\* The middleware in front of requests with any body and any header
NextMiddleware ==
    \/ Register({"a@x.com"}, {"a1"}, {Str("secret1")}, {"s1"}, {"none"})
    \/ Login({"a@x.com"}, {Str("secret1")}, {TRUE})
    \/ Tick
    \/ Use(PipeValues)

SpecMiddleware == Init /\ [][NextMiddleware]_vars

---------------------------------------------------------------------------
(* Properties.  A step that handles a request sets last; the clock is the  *)
(* only thing that moves without one.                                      *)

IsRegister(call) == call.op = "POST /auth/register"
IsLogin(call) == call.op = "POST /auth/login"
IsReset(call) == call.op = "POST /auth/reset-password"

Succeeded(call) == ~IsException(call.response)
Threw(call, kind) == IsException(call.response) /\ call.response.exception = kind

EmailStored(store, email) == \E i \in 1..Len(store) : store[i].email = email
UsernameStored(store, username) == \E i \in 1..Len(store) : store[i].username = username

\* encrypted is a hash of the string password under some salt
IsHashOf(encrypted, password) ==
    /\ password.type = "string"
    /\ \E salt \in Salts : encrypted = bcrypt_hash(password.val, salt)

\* a user with this email is stored and the password hashes to its stored hash
Matches(store, email, password) ==
    \E i \in 1..Len(store) :
        store[i].email = email /\ IsHashOf(store[i].password, password)

\* C1: login(e, P) returns an access token if and only if a user with email
\* e is stored and P hashes to that user's stored hash; for every other
\* password the response carries no token.
C1_LoginIffHashMatches ==
    IsLogin(last) =>
        /\ ("accessToken" \in DOMAIN last.response)
              <=> Matches(users, last.args.email, last.args.password)
        /\ Succeeded(last) <=> ("accessToken" \in DOMAIN last.response)

C1_Witness ==
    /\ IsLogin(last)
    /\ "accessToken" \in DOMAIN last.response
    /\ Len(users) = 2

\* C2: register throws Conflict when the email is stored, whatever the
\* username, and when the username is stored and the email is not; in both
\* cases nothing is hashed, created or saved and the user store is unchanged.
C2_RegisterConflict ==
    [][ (IsRegister(last') /\ now' = now
            /\ (EmailStored(users, last'.args.email)
                   \/ UsernameStored(users, last'.args.username)))
        => /\ Threw(last', "ConflictException")
           /\ \A i \in 1..Len(last'.calls) :
                 last'.calls[i] \notin {"bcrypt.hash", "create", "save"}
           /\ users' = users ]_vars

C2_Witness ==
    /\ IsRegister(last)
    /\ Threw(last, "ConflictException")
    /\ ~EmailStored(users, last.args.email)
    /\ UsernameStored(users, last.args.username)

\* C3: no two stored users share an email and no two share a username.
C3_UniqueEmailAndUsername ==
    \A i, j \in 1..Len(users) :
        i # j => /\ users[i].email # users[j].email
                 /\ users[i].username # users[j].username

C3_Witness ==
    /\ Len(users) = 2
    /\ IsRegister(last)
    /\ Threw(last, "ConflictException")

\* the header carries a token a login issued, and it has not expired
ValidToken(header, tokens, time) ==
    /\ header.kind = "bearer"
    /\ header.token \in tokens
    /\ time < header.token.exp

\* C4: a request to any of the five task routes without a header, with a
\* malformed header, with a token whose signature does not verify or with an
\* expired token is answered Unauthorized before any task operation runs,
\* and the task store is unchanged; with a valid unexpired token the handler
\* runs.
C4_GuardBeforeTasks ==
    [][ (last'.op \in TaskRoutes /\ now' = now)
        => IF ValidToken(last'.header, held, now)
           THEN /\ last'.calls # <<>>
                /\ ~Threw(last', "UnauthorizedException")
           ELSE /\ Threw(last', "UnauthorizedException")
                /\ last'.calls = <<>>
                /\ tasks' = tasks
                /\ nextTaskId' = nextTaskId ]_vars

C4_Witness ==
    /\ last.op = "DELETE /tasks/:id"
    /\ last.header.kind = "bearer"
    /\ last.header.token \in held
    /\ now >= last.header.token.exp
    /\ Threw(last, "UnauthorizedException")
    /\ findTask(tasks, last.args.id) # NoTask

\* C5 as stated: after a successful resetPassword(email, oldPassword,
\* newPassword), login(email, newPassword) succeeds and login(email,
\* oldPassword) fails, for every oldPassword and newPassword.
C5_Original ==
    (IsReset(last) /\ Succeeded(last)) =>
        /\ ~IsException(login(users, last.args.email, last.args.newPassword, now).response)
        /\ IsException(login(users, last.args.email, last.args.oldPassword, now).response)

\* C5 as amended: after a successful resetPassword(email, oldPassword,
\* newPassword), the next login(email, newPassword) succeeds, and the next
\* login(email, oldPassword) fails when oldPassword differs from newPassword.
C5_ResetThenLogin ==
    (IsReset(last) /\ Succeeded(last)) =>
        /\ ~IsException(login(users, last.args.email, last.args.newPassword, now).response)
        /\ last.args.oldPassword # last.args.newPassword
              => Threw([response |->
                            login(users, last.args.email, last.args.oldPassword, now).response],
                       "UnauthorizedException")

C5_Witness ==
    /\ IsReset(last)
    /\ Succeeded(last)
    /\ last.args.oldPassword # last.args.newPassword
    /\ Len(users) = 2

\* C6: resetPassword checks in a fixed order: no user for the email gives
\* NotFound; otherwise an oldPassword that does not match gives Unauthorized
\* 'Old password is incorrect', also when newPassword is too short; the
\* length of newPassword is checked only when oldPassword matches.
C6_ResetCheckOrder ==
    [][ (IsReset(last') /\ now' = now)
        => LET email == last'.args.email
               old == last'.args.oldPassword
           IN /\ ~EmailStored(users, email)
                    => /\ Threw(last', "NotFoundException")
                       /\ last'.calls = <<"findOne:email">>
              /\ (EmailStored(users, email) /\ old.type = "string"
                     /\ ~Matches(users, email, old))
                    => /\ Threw(last', "UnauthorizedException")
                       /\ last'.response.message = "Old password is incorrect"
              /\ Threw(last', "BadRequestException")
                    => /\ Matches(users, email, old)
                       /\ last'.calls = <<"findOne:email", "bcrypt.compare">> ]_vars

C6_Witness ==
    /\ IsReset(last)
    /\ Threw(last, "UnauthorizedException")
    /\ last.args.oldPassword.type = "string"
    /\ last.args.newPassword = Str("12345")

\* C7: for an existing user and a matching oldPassword, resetPassword throws
\* BadRequest exactly when newPassword is absent, empty or shorter than 6
\* characters; then nothing is hashed or saved and the stored hash is
\* unchanged.
C7_ResetLengthPolicy ==
    [][ (IsReset(last') /\ now' = now
            /\ Matches(users, last'.args.email, last'.args.oldPassword))
        => LET new == last'.args.newPassword IN
           /\ Threw(last', "BadRequestException")
                 <=> (new.type = "null" \/ new.val = "" \/ Len(new.val) < 6)
           /\ Threw(last', "BadRequestException")
                 => /\ \A i \in 1..Len(last'.calls) :
                          last'.calls[i] \notin {"bcrypt.hash", "save"}
                    /\ users' = users ]_vars

C7_Witness ==
    /\ IsReset(last)
    /\ Threw(last, "BadRequestException")
    /\ last.args.newPassword = Str("12345")

\* the strings a response carries
ResponseStrings(response) ==
    {response[f] : f \in DOMAIN response \cap {"message", "name", "exception"}}
        \cup (IF "user" \in DOMAIN response
              THEN {response.user[f] : f \in DOMAIN response.user \ {"id"}}
              ELSE {})
        \cup (IF "accessToken" \in DOMAIN response
              THEN {response.accessToken.username, response.accessToken.sig}
              ELSE {})

\* the password a call supplies for storing
Supplied(call) ==
    IF IsRegister(call) THEN call.args.password ELSE call.args.newPassword

\* C8: a stored password field is only ever written by a successful register
\* or resetPassword, with a hash of the password that call supplied and never
\* with the password itself; and no response of register, login or
\* resetPassword carries a password field or a stored hash.
C8_OnlyHashesStored ==
    [][ /\ \A i \in 1..Len(users') :
              (i > Len(users) \/ users'[i].password # users[i].password)
                 => /\ IsRegister(last') \/ IsReset(last')
                    /\ Succeeded(last')
                    /\ IsHashOf(users'[i].password, Supplied(last'))
                    /\ users'[i].password # Supplied(last').val
        /\ last'.op \in AuthRoutes
              => /\ "password" \notin DOMAIN last'.response
                 /\ "user" \in DOMAIN last'.response
                       => "password" \notin DOMAIN last'.response.user
                 /\ \A i \in 1..Len(users') :
                       users'[i].password \notin ResponseStrings(last'.response) ]_vars

C8_Witness ==
    /\ IsReset(last)
    /\ Succeeded(last)
    /\ \E i \in 1..Len(users) :
          /\ users[i].email = last.args.email
          /\ IsHashOf(users[i].password, last.args.newPassword)

\* C9: a successful register(email, name, username, password) adds exactly
\* one user, whose username, name and email are the arguments and whose
\* password is a hash of the password argument, and returns 'User created
\* successfully!' with a view holding exactly id, username, name and email of
\* the saved user.
C9_RegisterAddsUser ==
    [][ (IsRegister(last') /\ now' = now /\ Succeeded(last'))
        => /\ Len(users') = Len(users) + 1
           /\ SubSeq(users', 1, Len(users)) = users
           /\ LET saved == users'[Len(users')] IN
              /\ saved.username = last'.args.username
              /\ saved.name = last'.args.name
              /\ saved.email = last'.args.email
              /\ IsHashOf(saved.password, last'.args.password)
              /\ \A i \in 1..Len(users) : users[i].id # saved.id
              /\ last'.response =
                    [message |-> "User created successfully!",
                     user |-> [id |-> saved.id, username |-> saved.username,
                               name |-> saved.name, email |-> saved.email]] ]_vars

C9_Witness ==
    /\ IsRegister(last)
    /\ Succeeded(last)
    /\ Len(users) = 2

\* C10: a register call whose email and whose username are both stored gets
\* the email conflict, 'User already exists with this email', and the
\* username lookup is not made.
C10_EmailConflictFirst ==
    [][ (IsRegister(last') /\ now' = now
            /\ EmailStored(users, last'.args.email)
            /\ UsernameStored(users, last'.args.username))
        => /\ Threw(last', "ConflictException")
           /\ last'.response.message = "User already exists with this email"
           /\ last'.calls = <<"findOne:email">> ]_vars

C10_Witness ==
    /\ IsRegister(last)
    /\ Threw(last, "ConflictException")
    /\ \E i, j \in 1..Len(users) :
          /\ i # j
          /\ users[i].email = last.args.email
          /\ users[j].username = last.args.username

\* call is among the collaborator calls the request made
Called(request, call) == \E i \in 1..Len(request.calls) : request.calls[i] = call

\* C11: login throws Unauthorized 'User Not Found' when no stored user has
\* the email, without comparing a password, and Unauthorized 'Invalid
\* Password' when the user exists and the password does not match; no
\* failing login, a failure of the comparison itself included, signs a token.
C11_LoginFailures ==
    IsLogin(last) =>
        /\ ~EmailStored(users, last.args.email)
              => /\ Threw(last, "UnauthorizedException")
                 /\ last.response.message = "User Not Found"
                 /\ ~Called(last, "bcrypt.compare")
        /\ (EmailStored(users, last.args.email)
               /\ last.args.password.type = "string"
               /\ ~Matches(users, last.args.email, last.args.password))
              => /\ Threw(last, "UnauthorizedException")
                 /\ last.response.message = "Invalid Password"
        /\ (EmailStored(users, last.args.email)
               /\ last.args.password.type # "string")
              => Threw(last, "Error")
        /\ IsException(last.response)
              => /\ ~Called(last, "sign")
                 /\ "accessToken" \notin DOMAIN last.response

C11_Witness ==
    /\ IsLogin(last)
    /\ EmailStored(users, last.args.email)
    /\ Threw(last, "Error")
    /\ Called(last, "bcrypt.compare")

\* C12: the token of a successful login(email, password) carries exactly the
\* claims sub = id and username = username of the stored user with that
\* email, and the response's name is that user's name.
C12_TokenClaims ==
    (IsLogin(last) /\ Succeeded(last)) =>
        /\ DOMAIN last.response = {"message", "name", "accessToken"}
        /\ DOMAIN last.response.accessToken \ {"iat", "exp", "sig"} = {"sub", "username"}
        /\ \E i \in 1..Len(users) :
              /\ users[i].email = last.args.email
              /\ last.response.accessToken.sub = users[i].id
              /\ last.response.accessToken.username = users[i].username
              /\ last.response.name = users[i].name

C12_Witness ==
    /\ IsLogin(last)
    /\ Succeeded(last)
    /\ last.response.accessToken.sub = 2

\* what a request to a route with this header gets: rejected by the guard,
\* or handed to the handler
Admitted(route, header) ==
    Request(route, header, now, tasks,
            Outcome(tasks, [handled |-> TRUE], <<"handler">>)).calls # <<>>

\* C13: a token issued by login is accepted by the guard on every task route
\* at every time before its expiry, whatever resetPassword calls have
\* succeeded since, and rejected at every time after its expiry;
\* resetPassword returns no token.
C13_TokenValidUntilExpiry ==
    /\ \A t \in held : \A route \in TaskRoutes :
          /\ now < t.exp => Admitted(route, Bearer(t))
          /\ now > t.exp => ~Admitted(route, Bearer(t))
    /\ IsReset(last) => "accessToken" \notin DOMAIN last.response

C13_Witness ==
    /\ IsReset(last)
    /\ Succeeded(last)
    /\ \E t \in held : \E i \in 1..Len(users) :
          /\ users[i].email = last.args.email
          /\ t.sub = users[i].id
          /\ now < t.exp
          /\ ~IsHashOf(users[i].password, Str("secret1"))

\* everything of a user row except the password
Identity(row) ==
    [id |-> row.id, username |-> row.username, name |-> row.name, email |-> row.email]

\* C14: only a successful register adds a user, and it adds one; only a
\* successful resetPassword changes a stored user, and it changes only the
\* password of the user with its email; login, every failing auth call and
\* every task operation leave the user store unchanged; no step removes a
\* user or changes a user's id, username, name or email.
C14_UserStoreFrame ==
    [][ /\ Len(users') >= Len(users)
        /\ \A i \in 1..Len(users) : Identity(users'[i]) = Identity(users[i])
        /\ Len(users') # Len(users)
              => /\ IsRegister(last') /\ Succeeded(last')
                 /\ Len(users') = Len(users) + 1
        /\ \A i \in 1..Len(users) :
              users'[i] # users[i]
                 => /\ IsReset(last') /\ Succeeded(last')
                    /\ users[i].email = last'.args.email
        /\ (now' = now /\ (IsLogin(last') \/ last'.op \in TaskRoutes
                              \/ ~Succeeded(last')))
              => users' = users ]_vars

C14_Witness ==
    /\ IsReset(last)
    /\ Succeeded(last)
    /\ Len(users) = 2
    /\ tasks # <<>>

---------------------------------------------------------------------------
(* C15: resetPassword is all-or-nothing on the store.  When hashing the   *)
(* new password fails no save is attempted; when the save fails the       *)
(* store's own error reaches the caller; in both cases the users          *)
(* collection is what it was before the call, so login with the old       *)
(* password still succeeds.                                                *)
C15_ResetAllOrNothing ==
    [][ (IsReset(last') /\ now' = now /\ Threw(last', "Error")
           /\ last'.response.message \in {"bcrypt.hash", "userRepo.save"})
          => /\ users' = users
             /\ last'.response.message = "bcrypt.hash" => ~Called(last', "save")
             /\ Called(last', "save")
                   => last'.response = Exception("Error", "userRepo.save")
             /\ Succeeded([response |->
                              login(users', last'.args.email,
                                    last'.args.oldPassword, now').response]) ]_vars

C15_Witness ==
    /\ IsReset(last)
    /\ last.response = Exception("Error", "userRepo.save")
    /\ last.args.newPassword # last.args.oldPassword
    /\ Succeeded([response |->
                    login(users, last.args.email, last.args.oldPassword, now).response])

---------------------------------------------------------------------------
(* C16: a register call for an unused email and username either succeeds  *)
(* or ends in the error of the hashing primitive or of the store, as that *)
(* collaborator raised it and never as a Conflict, Unauthorized, NotFound *)
(* or BadRequest exception; after such an error the users collection is   *)
(* unchanged and holds no user with that email, and when it was the hash  *)
(* that failed neither create nor save was called.                        *)
C16_RegisterFailurePropagates ==
    [][ (IsRegister(last') /\ now' = now
           /\ ~EmailStored(users, last'.args.email)
           /\ ~UsernameStored(users, last'.args.username))
          => \/ Succeeded(last')
             \/ /\ last'.response \in {Exception("Error", "bcrypt.hash"),
                                        Exception("Error", "userRepo.save")}
                /\ users' = users
                /\ ~EmailStored(users', last'.args.email)
                /\ last'.response.message = "bcrypt.hash"
                      => ~Called(last', "create") /\ ~Called(last', "save")
                /\ last'.response.message = "userRepo.save"
                      => Called(last', "bcrypt.hash") /\ Called(last', "save") ]_vars

C16_Witness ==
    /\ IsRegister(last)
    /\ last.response = Exception("Error", "bcrypt.hash")
    /\ last.args.password.type = "string"
    /\ ~Called(last, "create")
    /\ users # <<>>
    /\ ~EmailStored(users, last.args.email)

---------------------------------------------------------------------------
(* C19: register has no minimum password length.  In every state, for     *)
(* every unused email and username and every string password, of fewer    *)
(* than 6 characters or not, register succeeds when its collaborators do, *)
(* and login with that password on the resulting store succeeds; the      *)
(* length policy of 6 is resetPassword's alone.                           *)
C19_RegisterAnyLength ==
    /\ \A email \in Emails, username \in Usernames, password \in Passwords,
          salt \in Salts :
          (/\ password.type = "string"
           /\ ~EmailStored(users, email)
           /\ ~UsernameStored(users, username))
             => LET out == register(users, email, "A", username, password, salt, "none")
                IN /\ ~IsException(out.response)
                   /\ ~IsException(login(out.store, email, password, now).response)
    /\ (IsRegister(last) /\ Succeeded(last))
          => ~IsException(login(users, last.args.email, last.args.password, now).response)
    /\ (IsReset(last) /\ Succeeded(last)) => Len(last.args.newPassword.val) >= 6

C19_Witness ==
    /\ IsRegister(last) /\ Succeeded(last)
    /\ Len(last.args.password.val) < 6
    /\ Len(last.args.password.val) > 0
    /\ ~IsException(login(users, last.args.email, last.args.password, now).response)

---------------------------------------------------------------------------
(* C20: when a PUT /tasks/:id/update request reaches the controller and   *)
(* no stored task has the id, TasksService.updateTask returns null after  *)
(* its lookup and saves nothing, the task store is unchanged, and the     *)
(* controller answers with the string 'No task was found with this id',   *)
(* not with an exception.                                                  *)
C20_UpdateUnknownTask ==
    [][ (/\ last'.op = "PUT /tasks/:id/update"
         /\ now' = now
         /\ last'.calls # <<>>
         /\ findTask(tasks, last'.args.id) = NoTask)
          => /\ updateTask(tasks, last'.args.id, last'.args.title,
                           last'.args.description, last'.args.completed)
                   = Outcome(tasks, [null |-> TRUE], <<"findOne">>)
             /\ ~Called(last', "save")
             /\ tasks' = tasks
             /\ nextTaskId' = nextTaskId
             /\ Succeeded(last')
             /\ last'.response = [text |-> "No task was found with this id"] ]_vars

C20_Witness ==
    /\ last.op = "PUT /tasks/:id/update"
    /\ last.response = [text |-> "No task was found with this id"]
    /\ findTask(tasks, last.args.id) = NoTask
    /\ tasks # <<>>

---------------------------------------------------------------------------
\* what the controller and service do with a request once it is admitted;
\* nothing of the token is passed to them
Handle(op, args, store, count) ==
    CASE op = "POST /tasks" ->
            createTask(store, count, UpperCasePipe(args).title.val,
                       UpperCasePipe(args).description.val)
      [] op = "GET /tasks" -> getAllTasks(store)
      [] op = "GET /tasks/:id" -> getTaskById(store, args.id)
      [] op = "PUT /tasks/:id/update" ->
            updateTaskRoute(store, args.id, args.title, args.description, args.completed)
      [] op = "DELETE /tasks/:id" -> deleteTask(store, args.id)

(* C18: the guard admits a request to a task route exactly when its token *)
(* is valid and unexpired, whichever user it was issued to, and an        *)
(* admitted request's effect on the task store, its response and its      *)
(* calls are those of the operation applied to its arguments and the      *)
(* store alone: any user's token reads, updates and deletes tasks that    *)
(* another user's request created.                                         *)
C18_OneAuthorizationScope ==
    [][ (last'.op \in TaskRoutes /\ now' = now)
          => /\ \A t \in held : \A route \in TaskRoutes :
                   Admitted(route, Bearer(t)) <=> now < t.exp
             /\ ValidToken(last'.header, held, now)
                   => LET out == Handle(last'.op, last'.args, tasks, nextTaskId)
                      IN /\ tasks' = out.store
                         /\ last'.response = out.response
                         /\ last'.calls = out.calls ]_vars

C18_Witness ==
    /\ last.op = "PUT /tasks/:id/update"
    /\ last.header.kind = "bearer"
    /\ last.header.token \in held
    /\ last.header.token.sub = 2
    /\ \E t \in held : t.sub = 1
    /\ last.calls = <<"findOne", "save">>
    /\ \E i \in 1..Len(tasks) : last.response = [task |-> tasks[i]]

---------------------------------------------------------------------------
\* a register call that has passed both lookups and not yet saved
PassedChecks(call) == call.pc \in {"bcrypt.hash", "save"}

(* C17: register checks the email and the username only in its two        *)
(* lookups.  A call that has passed them goes on to hash and save         *)
(* whatever other calls have stored since: with a store that does not     *)
(* enforce uniqueness its save adds a row with its email and the call     *)
(* succeeds, also when a row with that email is stored by then, so two    *)
(* calls for one unused email whose lookups both ran before either save   *)
(* create two users with that email.                                      *)
C17_RegisterRace ==
    [][ \A caller \in Callers :
          /\ (PassedChecks(pending[caller]) /\ pending'[caller] # pending[caller])
                => /\ pending'[caller].pc \in {"save", "idle"}
                   /\ pending'[caller].pc = "save" => last' = last
          /\ (pending[caller].pc = "save" /\ pending'[caller].pc = "idle")
                => /\ Len(users') = Len(users) + 1
                   /\ users'[Len(users')].email = pending[caller].args.email
                   /\ users'[Len(users')].username = pending[caller].args.username
                   /\ \A i \in 1..Len(users) : users'[i] = users[i]
                   /\ IsRegister(last') /\ Succeeded(last')
                   /\ last'.args = pending[caller].args ]_vars

C17_Witness ==
    /\ IsRegister(last) /\ Succeeded(last)
    /\ \E i, j \in 1..Len(users) :
          /\ i < j
          /\ users[i].email = users[j].email
          /\ users[j].email = last.args.email
          /\ users[i].username # users[j].username

---------------------------------------------------------------------------
(* C21: when a PUT /tasks/:id/update request reaches the service and a    *)
(* task with the id is stored, the stored task keeps its id, takes the    *)
(* title and the description of the request where they are not null and   *)
(* keeps its own where they are, takes the request's completed, and is    *)
(* the response; every other task and the length of the store are         *)
(* unchanged.  An update with nothing supplied changes nothing.           *)
C21_UpdateOnlySupplied ==
    [][ (/\ last'.op = "PUT /tasks/:id/update"
         /\ now' = now
         /\ last'.calls # <<>>
         /\ findTask(tasks, last'.args.id) # NoTask)
          => LET i == findTask(tasks, last'.args.id)
                 args == last'.args
             IN /\ Len(tasks') = Len(tasks)
                /\ \A j \in 1..Len(tasks) : j # i => tasks'[j] = tasks[j]
                /\ tasks'[i].id = tasks[i].id
                /\ tasks'[i].id = args.id
                /\ tasks'[i].title = IF args.title.type = "null"
                                      THEN tasks[i].title ELSE args.title.val
                /\ tasks'[i].description = IF args.description.type = "null"
                                            THEN tasks[i].description
                                            ELSE args.description.val
                /\ tasks'[i].completed = args.completed.val
                /\ last'.response = [task |-> tasks'[i]]
                /\ Called(last', "save")
                /\ updateTask(tasks, args.id, Null, Null, Null).store = tasks ]_vars

C21_Witness ==
    /\ last.op = "PUT /tasks/:id/update"
    /\ last.args.title = Null
    /\ last.args.description = Str("note")
    /\ last.args.completed = Bool(TRUE)
    /\ Len(tasks) = 2
    /\ \E i \in 1..2 :
          /\ last.response = [task |-> tasks[i]]
          /\ tasks[i].title = "CALL"
          /\ tasks[i].description = "note"
          /\ tasks[i].completed
          /\ ~tasks[3 - i].completed

---------------------------------------------------------------------------
\* the rows of a task store, as a set
Rows(store) == {store[i] : i \in 1..Len(store)}

(* C22: a DELETE /tasks/:id request that reaches the service is answered  *)
(* 'Task Deleted Successfully!' whether or not a task with the id was     *)
(* stored; afterwards getTaskById of the id yields null, the store holds  *)
(* exactly the other tasks, and a second deleteTask of the id gives the   *)
(* same message and leaves the store as it is.                            *)
C22_DeleteIdempotent ==
    [][ (last'.op = "DELETE /tasks/:id" /\ now' = now /\ last'.calls # <<>>)
          => LET id == last'.args.id
                 again == deleteTask(tasks', id)
             IN /\ last'.response = [text |-> "Task Deleted Successfully!"]
                /\ last'.calls = <<"delete">>
                /\ getTaskById(tasks', id).response = [null |-> TRUE]
                /\ Rows(tasks') = {row \in Rows(tasks) : row.id # id}
                /\ Len(tasks') = Len(tasks)
                                    - (IF findTask(tasks, id) = NoTask THEN 0 ELSE 1)
                /\ \A i, j \in 1..Len(tasks') :
                      i < j => \E k, l \in 1..Len(tasks) :
                                  k < l /\ tasks[k] = tasks'[i] /\ tasks[l] = tasks'[j]
                /\ again.response = last'.response
                /\ again.store = tasks' ]_vars

C22_Witness ==
    /\ last.op = "DELETE /tasks/:id"
    /\ last.response = [text |-> "Task Deleted Successfully!"]
    /\ last.args.id > nextTaskId
    /\ tasks # <<>>

---------------------------------------------------------------------------
\* titles and descriptions the service can be handed
TaskTexts == {"", "CALL", "Mail"}

(* C23: createTask appends exactly one task, with an id never generated   *)
(* before, the title and description it was given (an empty description   *)
(* included) and completed = false, and returns that task; getTaskById    *)
(* with the returned id then yields the same task, and getTaskById of an  *)
(* id that is not in the store yields null, not an error.                 *)
C23_CreateThenGet ==
    [][ (last'.op = "POST /tasks" /\ now' = now /\ last'.calls # <<>>)
          => LET n == Len(tasks')
             IN /\ n = Len(tasks) + 1
                /\ \A i \in 1..Len(tasks) : tasks'[i] = tasks[i]
                /\ tasks'[n].id > nextTaskId
                /\ \A i \in 1..Len(tasks) : tasks[i].id # tasks'[n].id
                /\ ~tasks'[n].completed
                /\ last'.response = [task |-> tasks'[n]]
                /\ getTaskById(tasks', tasks'[n].id).response = [task |-> tasks'[n]]
                /\ \A title \in TaskTexts, description \in TaskTexts :
                      LET out == createTask(tasks, nextTaskId, title, description)
                          task == out.response.task
                      IN /\ task.title = title
                         /\ task.description = description
                         /\ ~task.completed
                         /\ out.store = Append(tasks, task)
                         /\ getTaskById(out.store, task.id).response = [task |-> task]
                /\ \A id \in TaskIdArgs :
                      findTask(tasks', id) = NoTask
                         => getTaskById(tasks', id).response = [null |-> TRUE] ]_vars

C23_Witness ==
    /\ last.op = "POST /tasks"
    /\ Len(tasks) = 1
    /\ nextTaskId = 2
    /\ last.response = [task |-> tasks[1]]
    /\ tasks[1].id = 2
    /\ tasks[1].description = ""
    /\ ~tasks[1].completed
    /\ getTaskById(tasks, 1).response = [null |-> TRUE]

---------------------------------------------------------------------------
\* the step in which a caller's resetPassword saves and returns
ResetReturns(caller) ==
    /\ pending[caller].pc = "reset:save"
    /\ pending'[caller] = Idle

\* login with this password would succeed on this store
CanLogin(store, email, password) ==
    ~IsException(login(store, email, password, now).response)

(* C24 as stated: a resetPassword that returns success overwrites only a  *)
(* hash that its oldPassword matches; of two interleaved calls for one    *)
(* email with the correct oldPassword and different newPasswords at most  *)
(* one returns success, and login with the newPassword of a call that     *)
(* returned success keeps succeeding until a later resetPassword begins.  *)
C24_Original ==
    [][ \A caller \in Callers :
          ResetReturns(caller)
            => LET args == pending[caller].args
                   after == /\ IsReset(last) /\ Succeeded(last)
                            /\ last.args.email = args.email
                            /\ last.args.newPassword # args.oldPassword
               IN /\ users' # users => Matches(users, args.email, args.oldPassword)
                  /\ ~(/\ after
                       /\ last.args.oldPassword = args.oldPassword
                       /\ last.args.newPassword # args.newPassword)
                  /\ after => CanLogin(users', args.email, last.args.newPassword) ]_vars

(* C24, amended: resetPassword compares its oldPassword with the hash it  *)
(* loaded when it started and with nothing later.  A call that passes the *)
(* comparison and the length check goes on to save: its save gives the    *)
(* user the hash of its newPassword, whatever hash is stored by then, and *)
(* the call returns success, so two interleaved calls can both succeed.   *)
(* After a call returns success login with its newPassword succeeds until *)
(* another resetPassword call saves: only such a save changes a password. *)
C24_ResetRace ==
    [][ /\ \A caller \in Callers :
             /\ (/\ pending[caller].pc = "reset:bcrypt.compare"
                 /\ pending'[caller].pc = "reset:bcrypt.hash")
                   => /\ bcrypt_compare(pending[caller].args.oldPassword.val,
                                        pending[caller].user.password)
                      /\ Len(pending[caller].args.newPassword.val) >= 6
             /\ (pending[caller].pc \in {"reset:bcrypt.hash", "reset:save"}
                   /\ pending'[caller] # pending[caller])
                   => \/ pending'[caller].pc = "reset:save" /\ last' = last
                      \/ ResetReturns(caller)
             /\ ResetReturns(caller)
                   => LET args == pending[caller].args
                      IN /\ IsReset(last') /\ Succeeded(last') /\ last'.args = args
                         /\ Len(users') = Len(users)
                         /\ \A i \in 1..Len(users) :
                               /\ Identity(users'[i]) = Identity(users[i])
                               /\ users'[i].password =
                                     IF users[i].email = args.email
                                     THEN pending[caller].hashed
                                     ELSE users[i].password
                         /\ IsHashOf(pending[caller].hashed, args.newPassword)
        /\ (IsReset(last') /\ Succeeded(last'))
              => CanLogin(users', last'.args.email, last'.args.newPassword)
        /\ (\E i \in 1..Len(users) : users'[i].password # users[i].password)
              => \E caller \in Callers : ResetReturns(caller) ]_vars

C24_Witness ==
    /\ IsReset(last) /\ Succeeded(last)
    /\ last.args.oldPassword = Str("secret1")
    /\ last.args.newPassword = Str("abcdef")
    /\ Matches(users, last.args.email, Str("abcdef"))
    /\ \E caller \in Callers :
          /\ pending[caller].pc = "reset:bcrypt.compare"
          /\ pending[caller].args.email = last.args.email
          /\ IsHashOf(pending[caller].user.password, Str("123456"))

---------------------------------------------------------------------------
\* the number of stored users with this email
CountEmail(store, email) ==
    Cardinality({i \in 1..Len(store) : store[i].email = email})

(* C25: with a store that enforces unique email and username, however     *)
(* register calls interleave, no two stored users share an email or a     *)
(* username.  A call that passed both lookups and reaches its save either *)
(* succeeds and adds its user, or ends with the store's own failure, not  *)
(* with a ConflictException, and leaves the users as they were; when its  *)
(* email was stored meanwhile, or it succeeds, exactly one user with its  *)
(* email is stored afterwards.                                            *)
C25_UniqueStoreRace ==
    [][ /\ \A i, j \in 1..Len(users') :
             i # j => /\ users'[i].email # users'[j].email
                      /\ users'[i].username # users'[j].username
        /\ \A caller \in Callers :
             (pending[caller].pc = "save" /\ pending'[caller] = Idle)
               => LET args == pending[caller].args
                  IN /\ IsRegister(last') /\ last'.args = args
                     /\ (EmailStored(users, args.email) \/ Succeeded(last'))
                           => CountEmail(users', args.email) = 1
                     /\ IF EmailStored(users, args.email)
                           \/ UsernameStored(users, args.username)
                        THEN /\ last'.response = UniqueViolation
                             /\ ~Threw(last', "ConflictException")
                             /\ users' = users
                        ELSE /\ Succeeded(last')
                             /\ Len(users') = Len(users) + 1
                             /\ users'[Len(users')].email = args.email ]_vars

C25_Witness ==
    /\ IsRegister(last)
    /\ last.response = UniqueViolation
    /\ CountEmail(users, last.args.email) = 1
    /\ ~UsernameStored(users, last.args.username)
    /\ \A caller \in Callers : pending[caller] = Idle

---------------------------------------------------------------------------
\* the ids of the stored tasks
TaskIds(store) == {store[i].id : i \in 1..Len(store)}

\* the step in which a caller's updateTask saves and returns
UpdateReturns(caller) ==
    /\ pending[caller].pc = "update:save"
    /\ pending'[caller] = Idle

(* C26 as stated: an id that was generated and is no longer stored was    *)
(* deleted, and no task with it is stored in any later state; a task      *)
(* enters the store only through createTask.                              *)
C26_Original ==
    [][ /\ \A id \in 1..nextTaskId : id \notin TaskIds(tasks) => id \notin TaskIds(tasks')
        /\ TaskIds(tasks') \ TaskIds(tasks) # {}
              => /\ last'.op = "POST /tasks"
                 /\ \A caller \in Callers : ~UpdateReturns(caller) ]_vars

(* C26, amended: a deleted task comes back only through the save of an    *)
(* updateTask that read it before the deletion.  createTask adds a task   *)
(* with a new id; the save of updateTask stores the task it loaded, as    *)
(* updated, under its id, also when no task with that id is stored any    *)
(* more; no other step adds a task, and right after deleteTask(id) no     *)
(* task with that id is stored.                                           *)
C26_DeleteThenSave ==
    [][ /\ \A id \in TaskIds(tasks') \ TaskIds(tasks) :
             \/ /\ last'.op = "POST /tasks"
                /\ id = nextTaskId + 1
                /\ \A caller \in Callers : pending'[caller] = pending[caller]
             \/ /\ id \in 1..nextTaskId
                /\ \E caller \in Callers :
                      UpdateReturns(caller) /\ pending[caller].task.id = id
        /\ \A caller \in Callers :
             UpdateReturns(caller)
               => LET task == pending[caller].task
                  IN /\ task \in Rows(tasks')
                     /\ last'.response = [task |-> task]
                     /\ \A row \in Rows(tasks) : row.id # task.id => row \in Rows(tasks')
                     /\ TaskIds(tasks') = TaskIds(tasks) \cup {task.id}
                     /\ Len(tasks') = Cardinality(TaskIds(tasks'))
        /\ (last'.op = "DELETE /tasks/:id" /\ now' = now /\ last'.calls # <<>>)
              => last'.args.id \notin TaskIds(tasks') ]_vars

C26_Witness ==
    /\ last.op = "PUT /tasks/:id/update"
    /\ Len(tasks) = 2
    /\ tasks[1].id = 2
    /\ tasks[2].id = 1
    /\ last.response = [task |-> tasks[2]]

---------------------------------------------------------------------------
\* the tokens known to have been issued: those clients kept, and the one in
\* the last response
Issued(tokens, call) ==
    tokens \cup (IF IsLogin(call) /\ Succeeded(call)
                  THEN {call.response.accessToken} ELSE {})

\* the token names a stored user by id and by username
NamesStoredUser(token, store) ==
    \E i \in 1..Len(store) :
        store[i].id = token.sub /\ store[i].username = token.username

(* C27: every token issued by login has as subject the id of a user that  *)
(* is still stored and as username claim that user's stored username, in *)
(* every state, expired or not and whatever was reset since: no step      *)
(* removes a user or changes a user's id or username.                     *)
C27_TokensNameStoredUsers ==
    [][ /\ Len(users') >= Len(users)
        /\ \A i \in 1..Len(users) :
              /\ users'[i].id = users[i].id
              /\ users'[i].username = users[i].username
        /\ \A t \in Issued(held, last) \cup Issued(held', last') :
              NamesStoredUser(t, users') ]_vars

C27_Witness ==
    /\ Cardinality({t.sub : t \in held}) = 2
    /\ IsReset(last) /\ Succeeded(last)
    /\ \E t \in held : \E i \in 1..Len(users) :
          /\ users[i].id = t.sub
          /\ users[i].username = t.username
          /\ users[i].email = last.args.email
          /\ Matches(users, last.args.email, Str("123456"))

---------------------------------------------------------------------------
\* a string-valued field in upper case, any other field as it is
UpperField(field) == IF field.type = "string" THEN Str(toUpperCase(field.val)) ELSE field

(* C28 as stated: UpperCasePipe.transform returns the uppercased string   *)
(* for a string; for a non-null object it returns the object with every   *)
(* string field uppercased and every other field unchanged; for null,     *)
(* undefined, numbers and booleans it throws BadRequest; a task created   *)
(* through POST /tasks is stored with uppercased title and description;   *)
(* the pipe applied to its own result gives that result.                  *)
C28_UpperCasePipe ==
    /\ last.op = "UpperCasePipe.transform"
          => LET value == last.args.value IN
             /\ value.type = "string"
                   => last.response = [value |-> Str(toUpperCase(value.val))]
             /\ value.type = "object"
                   => /\ Succeeded(last)
                      /\ last.response.value.type = "object"
                      /\ DOMAIN last.response.value.val = DOMAIN value.val
                      /\ \A key \in DOMAIN value.val :
                            last.response.value.val[key] = UpperField(value.val[key])
             /\ value.type \in {"null", "undefined", "number", "boolean"}
                   => Threw(last, "BadRequestException")
             /\ Succeeded(last) => transform(last.response.value) = last.response
    /\ (last.op = "POST /tasks" /\ Succeeded(last))
          => /\ last.response.task.title = toUpperCase(last.args.title.val)
             /\ last.response.task.description = toUpperCase(last.args.description.val)
             /\ last.response.task \in Rows(tasks)

---------------------------------------------------------------------------
\* how many times a collaborator was called in a request
Count(request, call) ==
    Cardinality({i \in 1..Len(request.calls) : request.calls[i] = call})

(* C29: for every request, whatever its body and whether it carries no    *)
(* Authorization header, a malformed one, a valid token, an expired one   *)
(* or a forged one, AuthMiddleware.use calls next() exactly once, throws  *)
(* nothing and hands on the request with the body and header it came      *)
(* with.                                                                   *)
C29_MiddlewarePassesAll ==
    last.op = "AuthMiddleware.use"
      => /\ Count(last, "next") = 1
         /\ Succeeded(last)
         /\ last.response = [next |-> [body |-> last.args.body, header |-> last.header]]

C29_Witness ==
    /\ last.op = "AuthMiddleware.use"
    /\ last.header = NoHeader
    /\ last.args.body = Null
    /\ Count(last, "next") = 1
    /\ held # {}
    /\ \A t \in held : t.exp <= now

====
